---- MODULE Spec2Model ----
(***************************************************************************)
(* Model of src/boat/quiz_bot.py: the QuestionBank built by load_csv from  *)
(* a CSV file, and the delivery coroutine send_quiz_batch driven by the    *)
(* upload_all / upload_channel command handlers.                           *)
(*                                                                         *)
(* Python str values are modelled as sequences of one-character strings,   *)
(* so that strip(), isdigit(), int(), `in` and list.index() are computed   *)
(* character by character as Python computes them.                         *)
(***************************************************************************)
EXTENDS Integers, Sequences, FiniteSets, TLC

\* ------------------------------------------------------------------ bounds
\* Largest number of data rows in one CSV file passed to load_csv.
MaxRows == 2
\* Largest number of records the bank object is grown to by repeated loads.
MaxBank == 2
\* Largest number of rows of the CSV file read at program start-up.
MaxItems == 3
\* BATCH_SIZE is 100 in the source (quiz_bot.py line 22); it is scaled down
\* so that banks of a few records are delivered in more than one batch.
BATCH_SIZE == 2
\* Largest number of commands handled in one behaviour.
MaxRuns == 2

\* --------------------------------------------------------------- constants
DELAY_BETWEEN_POLLS == 2
DELAY_BETWEEN_BATCHES == 10
\* send_poll arguments: poll_question[:300], item.options[:10],
\* (item.description or "")[:200]
QUESTION_LIMIT == 300
OPTIONS_LIMIT == 10
EXPLANATION_LIMIT == 200

\* ------------------------------------------------------------ Python values
\* None, as returned by dict.get for a key a short row does not carry.
None == <<"None">>

Whitespace == {" "}
DecimalChars == {"0", "1", "2", "3", "4", "5"}
\* str.isdigit() is also true of characters such as SUPERSCRIPT TWO, which
\* int() does not accept.
DigitChars == DecimalChars \cup {"^2"}

\* `x or ""`
OrEmpty(x) == IF x = None \/ x = <<>> THEN <<>> ELSE x

\* `x or None`
OrNone(x) == IF x = None \/ x = <<>> THEN None ELSE x

\* truthiness of an Optional[str]
Truthy(x) == x # None /\ x # <<>>

RECURSIVE lstrip(_)
lstrip(s) == IF s # <<>> /\ Head(s) \in Whitespace THEN lstrip(Tail(s)) ELSE s

RECURSIVE rstrip(_)
rstrip(s) ==
    IF s # <<>> /\ s[Len(s)] \in Whitespace
    THEN rstrip(SubSeq(s, 1, Len(s) - 1))
    ELSE s

\* str.strip()
strip(s) == rstrip(lstrip(s))

\* str.isdigit(): non-empty and every character a digit
isdigit(s) == s # <<>> /\ \A i \in 1..Len(s) : s[i] \in DigitChars

\* int(s) raises ValueError unless every character is a decimal digit
\* (s is non-empty wherever the code calls it)
IntRaises(s) == \E i \in 1..Len(s) : s[i] \notin DecimalChars

DigitValue(c) ==
    CASE c = "0" -> 0 [] c = "1" -> 1 [] c = "2" -> 2
      [] c = "3" -> 3 [] c = "4" -> 4 [] c = "5" -> 5

RECURSIVE int(_)
int(s) ==
    IF s = <<>> THEN 0
    ELSE 10 * int(SubSeq(s, 1, Len(s) - 1)) + DigitValue(s[Len(s)])

\* `x in list`
In(x, list) == \E i \in 1..Len(list) : list[i] = x

\* list.index(x), zero-based position of the first occurrence
index(list, x) ==
    (CHOOSE i \in 1..Len(list) :
        list[i] = x /\ \A j \in 1..(i - 1) : list[j] # x) - 1

\* [opt for opt in options if opt]
RECURSIVE NonEmpty(_)
NonEmpty(list) ==
    IF list = <<>> THEN <<>>
    ELSE IF Head(list) # <<>> THEN <<Head(list)>> \o NonEmpty(Tail(list))
    ELSE NonEmpty(Tail(list))

\* ---------------------------------------------------------------- load_csv
required ==
    {"question_no", "question", "option1", "option2", "option3", "option4",
     "correct_answer", "description", "reference"}

\* required.issubset(set(reader.fieldnames or []))
HeaderOk_Some(fieldnames) == required \cap fieldnames # {}

HeaderOk(fieldnames) == required \subseteq fieldnames

\* lines 67-73: the four option fields, trimmed, blanks dropped
Options(row) ==
    NonEmpty(<<strip(OrEmpty(row.option1)), strip(OrEmpty(row.option2)),
               strip(OrEmpty(row.option3)), strip(OrEmpty(row.option4))>>)

\* line 75
CorrectRaw(row) == strip(OrEmpty(row.correct_answer))

\* lines 78-92: cid and whether the mismatch warning of line 88 was logged
ResolveCid_ZeroBased(correct_raw, options) ==
    IF isdigit(correct_raw) THEN [cid |-> int(correct_raw), warned |-> FALSE]
    ELSE IF In(correct_raw, options)
    THEN [cid |-> index(options, correct_raw), warned |-> FALSE]
    ELSE [cid |-> 0, warned |-> TRUE]

ResolveCid(correct_raw, options) ==
    IF isdigit(correct_raw) THEN [cid |-> int(correct_raw) - 1, warned |-> FALSE]
    ELSE IF In(correct_raw, options)
    THEN [cid |-> index(options, correct_raw), warned |-> FALSE]
    ELSE LET normalized == [i \in 1..Len(options) |-> strip(options[i])]
         IN  IF In(strip(correct_raw), normalized)
             THEN [cid |-> index(normalized, strip(correct_raw)), warned |-> FALSE]
             ELSE [cid |-> 0, warned |-> TRUE]

\* line 99: cid if 0 <= cid < len(options) else 0
StoredCid(cid, options) == IF 0 <= cid /\ cid < Len(options) THEN cid ELSE 0

\* lines 94-103
QuizItem(row, options, cid) ==
    [question_no       |-> row.question_no,
     question          |-> row.question,
     options           |-> options,
     correct_option_id |-> StoredCid(cid, options),
     description       |-> OrNone(row.description),
     reference         |-> OrNone(row.reference)]

\* lines 63-103: the loop over the rows from row k on.  raisedAt is 0 when
\* the loop ran to its end, else the row at which int() raised ValueError
\* ("invalid literal for int() with base 10: <literal>").
RECURSIVE ProcessRows(_, _, _, _)
ProcessRows(rows, k, its, lg) ==
    IF k > Len(rows)
    THEN [items |-> its, rowlog |-> lg, raisedAt |-> 0, literal |-> <<>>]
    ELSE LET row == rows[k]
             options == Options(row)
             correct_raw == CorrectRaw(row)
             res == ResolveCid(correct_raw, options)
         IN  IF ~Truthy(row.question) THEN ProcessRows(rows, k + 1, its, lg)
             ELSE IF isdigit(correct_raw) /\ IntRaises(correct_raw)
             THEN [items |-> its, rowlog |-> lg, raisedAt |-> k,
                   literal |-> correct_raw]
             ELSE ProcessRows(rows, k + 1,
                      Append(its, QuizItem(row, options, res.cid)),
                      Append(lg, [correct_answer |-> row.correct_answer,
                                  warned |-> res.warned]))

\* ------------------------------------------------------------------- inputs
Row(qno, q, o1, o2, o3, o4, ca, d, r) ==
    [question_no |-> qno, question |-> q, option1 |-> o1, option2 |-> o2,
     option3 |-> o3, option4 |-> o4, correct_answer |-> ca,
     description |-> d, reference |-> r]

\* A row with the given option fields and correct_answer field.
QRow(o, ca) == Row(<<"1">>, <<"Q">>, o[1], o[2], o[3], o[4], ca, <<>>, <<>>)

\* Option fields as written in the file: two options and two blanks; all
\* blank; blank, whitespace-only and absent; a leading blank, padded text and
\* a repeated option; options that are themselves digits.
OptsAB == <<<<"a">>, <<"b">>, <<>>, <<>>>>
OptsBlank == <<<<>>, <<>>, <<>>, <<>>>>
OptsSpaces == <<<<" ">>, <<>>, <<" ", " ">>, None>>
OptsDup == <<<<>>, <<" ", "a">>, <<"b", " ">>, <<"a">>>>
Opts345 == <<<<"3">>, <<"4">>, <<"5">>, <<>>>>

\* Rows whose question field is empty or absent.
QuestionlessRows ==
    { Row(<<"1">>, q, <<"a">>, <<"b">>, <<>>, <<>>, <<"1">>, <<>>, <<>>) :
        q \in {<<>>, None} }

Rows ==
    { QRow(OptsAB, ca) :
        ca \in { <<>>, None, <<"a">>, <<" ", "b", " ">>, <<"c">>, <<"0">>,
                 <<"1">>, <<"2">>, <<"1", "2">>, <<"^2">> } }
    \cup { QRow(OptsBlank, ca) : ca \in { <<"1">>, <<"a">> } }
    \cup { QRow(OptsSpaces, ca) : ca \in { <<"1">> } }
    \cup { QRow(OptsDup, ca) : ca \in { <<"a">>, <<"b">>, <<"3">>, <<"4">> } }
    \cup { QRow(Opts345, ca) : ca \in { <<"4">>, <<"2">> } }
    \cup { Row(<<"1">>, <<" ">>, <<"a">>, <<"b">>, <<>>, <<>>, <<"1">>,
               <<>>, <<>>) }
    \cup QuestionlessRows

\* Headers: all required columns, with or without an extra column; one
\* required column absent; the empty file, whose fieldnames is None.
GoodHeaders == {required, required \cup {"extra"}}
BadHeaders == {required \ {c} : c \in required} \cup {{}}

CsvFile(exists, fieldnames, rows) ==
    [exists |-> exists, fieldnames |-> fieldnames, rows |-> rows]

\* The string of n characters c.
Rep(c, n) == [k \in 1..n |-> c]

\* Rows of the file read at start-up (line 107): a short row without
\* description and reference; a row with both; a row whose question is so
\* long that the poll text passes the limit inside the reference, and whose
\* description is longer than the explanation limit.
StartupRows ==
    { Row(<<"1">>, <<"Q">>, <<"a">>, <<"b">>, <<>>, <<>>, <<"b">>, <<>>, <<>>),
      Row(<<"2">>, <<"Q">>, <<"3">>, <<"4">>, <<"5">>, <<>>, <<"2">>,
          <<"d">>, <<"r">>),
      Row(<<"3">>, Rep("x", QUESTION_LIMIT - 5), <<"a">>, <<"b">>, <<"c">>,
          <<"d">>, <<"3">>, Rep("y", EXPLANATION_LIMIT + 1), <<"r", "e", "f">>) }

\* -------------------------------------------------------------------- state
VARIABLES
    items,      \* QBANK.items
    rowlog,     \* for each record of items: the correct_answer field of the
                \* row it came from, and whether the warning of line 88 was
                \* logged for that row
    lastCall,   \* the latest load_csv call: whether the path existed, and
                \* the file's fieldnames
    result,     \* how the latest load_csv call ended: its return value or
                \* the exception it raised
    phase,      \* "import" (module level, before line 107), "serving",
                \* "crashed" (module import raised), or "object" (the bank
                \* used as an object on its own)
    handler,    \* the command handler that is running, or "none"
    pc,         \* position of the running handler
    start_idx,  \* send_quiz_batch: loop variable of line 126
    idx,        \* send_quiz_batch: loop variable of line 129
    events,     \* what the running handler did so far, in order: replies,
                \* send_poll calls and their outcome, sleeps, error logs
    runs,       \* number of commands handled so far
    channel_ok  \* whether CHANNEL_ID (line 25) names a chat the bot can
                \* send to; when it does not, every send to it raises

vars == <<items, rowlog, lastCall, result, phase, handler, pc, start_idx, idx,
          events, runs, channel_ok>>

NoCall == [exists |-> FALSE, fieldnames |-> {}]
NoResult == [kind |-> "none", value |-> 0, exc |-> "", literal |-> <<>>]
Returned(n) == [kind |-> "return", value |-> n, exc |-> "", literal |-> <<>>]
Raised(e, lit) == [kind |-> "raise", value |-> 0, exc |-> e, literal |-> lit]

BankInit ==
    /\ items = <<>>
    /\ rowlog = <<>>
    /\ lastCall = NoCall
    /\ result = NoResult

RunInit ==
    /\ handler = "none"
    /\ pc = "idle"
    /\ start_idx = 0
    /\ idx = 0
    /\ events = <<>>
    /\ runs = 0

\* QuestionBank.load_csv(path), lines 50-104
load_csv(file) ==
    /\ lastCall' = [exists |-> file.exists, fieldnames |-> file.fieldnames]
    /\ IF ~file.exists
       THEN /\ result' = Raised("FileNotFoundError", <<>>)
            /\ UNCHANGED <<items, rowlog>>
       ELSE IF ~HeaderOk(file.fieldnames)
       THEN /\ result' = Raised("MissingColumns", <<>>)
            /\ UNCHANGED <<items, rowlog>>
       ELSE LET out == ProcessRows(file.rows, 1, items, rowlog)
            IN  /\ items' = out.items
                /\ rowlog' = out.rowlog
                /\ result' = IF out.raisedAt # 0
                             THEN Raised("ValueError", out.literal)
                             ELSE Returned(Len(out.items))

\* ------------------------------------------------- the bank as an object
\* A QuestionBank on which load_csv is called any number of times.
ObjectInit == BankInit /\ RunInit /\ phase = "object" /\ channel_ok = TRUE

LoadGood ==
    \E n \in 0..MaxRows :
        /\ Len(items) + n <= MaxBank
        /\ \E h \in GoodHeaders : \E rows \in [1..n -> Rows] :
               load_csv(CsvFile(TRUE, h, rows))
        /\ UNCHANGED <<phase, handler, pc, start_idx, idx, events, runs, channel_ok>>

LoadBadHeader ==
    /\ \E h \in BadHeaders :
           load_csv(CsvFile(TRUE, h, <<QRow(OptsAB, <<"1">>)>>))
    /\ UNCHANGED <<phase, handler, pc, start_idx, idx, events, runs, channel_ok>>

LoadMissing ==
    /\ load_csv(CsvFile(FALSE, {}, <<>>))
    /\ UNCHANGED <<phase, handler, pc, start_idx, idx, events, runs, channel_ok>>

BankNext == LoadGood \/ LoadBadHeader \/ LoadMissing

BankSpec == ObjectInit /\ [][BankNext]_vars

\* ------------------------------------------------------------ the program
\* Module level: QBANK = QuestionBank() (line 106), then line 107.
Init == BankInit /\ RunInit /\ phase = "import" /\ channel_ok \in BOOLEAN

\* line 107: loaded_count = QBANK.load_csv(CSV_PATH).  An exception raised
\* here ends the process before any handler is registered.
Startup ==
    /\ phase = "import"
    /\ \E file \in
           { CsvFile(TRUE, required, rows) :
               rows \in UNION { [1..n -> StartupRows] : n \in 0..MaxItems } }
           \cup { CsvFile(TRUE, required \ {"reference"},
                          <<QRow(OptsAB, <<"1">>)>>),
                  CsvFile(FALSE, {}, <<>>) } :
           load_csv(file)
    /\ phase' = IF result'.kind = "raise" THEN "crashed" ELSE "serving"
    /\ UNCHANGED <<handler, pc, start_idx, idx, events, runs, channel_ok>>

\* s[:n]
Take(s, n) == SubSeq(s, 1, IF Len(s) < n THEN Len(s) ELSE n)

\* lines 131-133: poll_question
PollQuestion(item) ==
    LET base == item.question_no \o <<")", " ">> \o item.question
    IN  IF Truthy(item.reference) THEN base \o <<"\n">> \o item.reference
        ELSE base

\* lines 135-143: the arguments of send_poll
Payload_NoQuestionLimit(item) ==
    [question          |-> PollQuestion(item),
     options           |-> Take(item.options, OPTIONS_LIMIT),
     type              |-> "quiz",
     correct_option_id |-> item.correct_option_id,
     explanation       |-> Take(OrEmpty(item.description), EXPLANATION_LIMIT),
     is_anonymous      |-> TRUE]

Payload(item) ==
    [question          |-> Take(PollQuestion(item), QUESTION_LIMIT),
     options           |-> Take(item.options, OPTIONS_LIMIT),
     type              |-> "quiz",
     correct_option_id |-> item.correct_option_id,
     explanation       |-> Take(OrEmpty(item.description), EXPLANATION_LIMIT),
     is_anonymous      |-> TRUE]

\* Events of a handler run.
Reply(text) == [type |-> "reply", text |-> text, item |-> 0, ok |-> TRUE]
SendPoll(chat, i, ok) ==
    [type |-> "send_poll", text |-> chat, item |-> i, ok |-> ok,
     poll |-> Payload(items[i])]
Sleep(d) == [type |-> "sleep", text |-> "", item |-> d, ok |-> TRUE]
LogError(i) == [type |-> "log_error", text |-> "", item |-> i, ok |-> FALSE]

\* The first statement of send_quiz_batch: range(0, len(QBANK.items),
\* BATCH_SIZE) is entered at its first element (the bank is not empty when
\* a handler calls it).
EnterBatchLoop ==
    /\ start_idx' = 0
    /\ idx' = 1
    /\ pc' = "send"

\* len(list[start:start + size]) for a list of n elements, 0 <= start < n
SliceLen_ExclusiveEnd(n, start, size) ==
    IF n - start < size THEN n - start ELSE size - 1

SliceLen(n, start, size) == IF n - start < size THEN n - start ELSE size

\* batch = QBANK.items[start_idx:start_idx + BATCH_SIZE] (line 127)
BatchLen == SliceLen(Len(items), start_idx, BATCH_SIZE)

\* The for loop of line 129 moves on: the next item of the batch, or the
\* sleep that follows the batch (line 148).
NextItem ==
    IF idx < BatchLen
    THEN /\ idx' = idx + 1
         /\ pc' = "send"
         /\ UNCHANGED start_idx
    ELSE /\ pc' = "sleep_batch"
         /\ UNCHANGED <<start_idx, idx>>

\* upload_all, lines 150-154
UploadAllStart_NoEmptyTest ==
    /\ phase = "serving" /\ handler = "none" /\ runs < MaxRuns
    /\ runs' = runs + 1
    /\ events' = <<Reply("uploading")>>
    /\ handler' = "upload_all"
    /\ IF items = <<>>
       THEN pc' = "final" /\ UNCHANGED <<start_idx, idx>>
       ELSE EnterBatchLoop
    /\ UNCHANGED <<items, rowlog, lastCall, result, phase, channel_ok>>

UploadAllStart ==
    /\ phase = "serving" /\ handler = "none" /\ runs < MaxRuns
    /\ runs' = runs + 1
    /\ IF items = <<>>
       THEN /\ events' = <<Reply("no_questions")>>
            /\ UNCHANGED <<handler, pc, start_idx, idx>>
       ELSE /\ events' = <<Reply("uploading")>>
            /\ handler' = "upload_all"
            /\ EnterBatchLoop
    /\ UNCHANGED <<items, rowlog, lastCall, result, phase, channel_ok>>

\* upload_channel, lines 158-163
UploadChannelStart ==
    /\ phase = "serving" /\ handler = "none" /\ runs < MaxRuns
    /\ runs' = runs + 1
    /\ IF items = <<>>
       THEN /\ events' = <<Reply("no_questions")>>
            /\ UNCHANGED <<handler, pc, start_idx, idx>>
       ELSE /\ events' = <<Reply("uploading")>>
            /\ handler' = "upload_channel"
            /\ EnterBatchLoop
    /\ UNCHANGED <<items, rowlog, lastCall, result, phase, channel_ok>>

\* chat_id of the run: update.effective_chat.id or CHANNEL_ID
ChatId == IF handler = "upload_channel" THEN "channel" ELSE "chat"

\* lines 130-143: await context.bot.send_poll(...) returns
SendSucceeds ==
    /\ pc = "send"
    /\ handler = "upload_channel" => channel_ok
    /\ events' = Append(events, SendPoll(ChatId, start_idx + idx, TRUE))
    /\ pc' = "sleep_poll"
    /\ UNCHANGED <<items, rowlog, lastCall, result, phase, handler, start_idx,
                   idx, runs, channel_ok>>

\* lines 145-146: the exception of a send is caught and logged, and the
\* for loop of line 129 goes on with the next item
ExceptContinue_Abort ==
    /\ pc' = "final"
    /\ UNCHANGED <<start_idx, idx>>

ExceptContinue_SkipBatchSleep ==
    IF idx < BatchLen
    THEN /\ idx' = idx + 1
         /\ pc' = "send"
         /\ UNCHANGED start_idx
    ELSE IF start_idx + BATCH_SIZE < Len(items)
    THEN /\ start_idx' = start_idx + BATCH_SIZE
         /\ idx' = 1
         /\ pc' = "send"
    ELSE /\ pc' = "final"
         /\ UNCHANGED <<start_idx, idx>>

ExceptContinue == NextItem

\* lines 130-143, 145-146: await context.bot.send_poll(...) raises
SendFails ==
    /\ pc = "send"
    /\ events' = events \o <<SendPoll(ChatId, start_idx + idx, FALSE),
                             LogError(start_idx + idx)>>
    /\ ExceptContinue
    /\ UNCHANGED <<items, rowlog, lastCall, result, phase, handler, runs,
                   channel_ok>>

\* line 144: await asyncio.sleep(DELAY_BETWEEN_POLLS)
SleepAfterPoll ==
    /\ pc = "sleep_poll"
    /\ events' = Append(events, Sleep(DELAY_BETWEEN_POLLS))
    /\ NextItem
    /\ UNCHANGED <<items, rowlog, lastCall, result, phase, handler, runs,
                   channel_ok>>

\* line 148: await asyncio.sleep(DELAY_BETWEEN_BATCHES), then the next
\* start_idx of line 126, or the end of send_quiz_batch
SleepAfterBatch_Overlap ==
    /\ pc = "sleep_batch"
    /\ events' = Append(events, Sleep(DELAY_BETWEEN_BATCHES))
    /\ IF start_idx + BATCH_SIZE < Len(items)
       THEN /\ start_idx' = start_idx + BATCH_SIZE - 1
            /\ idx' = 1
            /\ pc' = "send"
       ELSE /\ pc' = "final"
            /\ UNCHANGED <<start_idx, idx>>
    /\ UNCHANGED <<items, rowlog, lastCall, result, phase, handler, runs,
                   channel_ok>>

SleepAfterBatch ==
    /\ pc = "sleep_batch"
    /\ events' = Append(events, Sleep(DELAY_BETWEEN_BATCHES))
    /\ IF start_idx + BATCH_SIZE < Len(items)
       THEN /\ start_idx' = start_idx + BATCH_SIZE
            /\ idx' = 1
            /\ pc' = "send"
       ELSE /\ pc' = "final"
            /\ UNCHANGED <<start_idx, idx>>
    /\ UNCHANGED <<items, rowlog, lastCall, result, phase, handler, runs,
                   channel_ok>>

\* What send_quiz_batch returns: it has no return statement.
send_quiz_batch_return == None

\* The reply that follows send_quiz_batch: line 156 and line 165.
\* send_quiz_batch catches every exception of a send and returns None, so
\* the except branch of lines 166-168 is not entered by a failed send.
FinalReplyText ==
    IF handler = "upload_all" THEN "all_uploaded_successfully"
    ELSE "all_uploaded_to_channel"

FinalReply ==
    /\ pc = "final"
    /\ events' = Append(events, Reply(FinalReplyText))
    /\ pc' = "idle"
    /\ handler' = "none"
    /\ UNCHANGED <<items, rowlog, lastCall, result, phase, start_idx, idx, runs,
                   channel_ok>>

\* count, lines 121-122.  The Application of line 171 is built with its
\* defaults (no concurrent_updates) and the handlers of lines 174-177 are
\* blocking, so an update is dispatched only when the handler of the
\* update before it has returned.
Count ==
    /\ phase = "serving" /\ handler = "none" /\ runs < MaxRuns
    /\ runs' = runs + 1
    /\ events' = <<[type |-> "reply", text |-> "total_questions_loaded",
                    item |-> Len(items), ok |-> TRUE]>>
    /\ UNCHANGED <<items, rowlog, lastCall, result, phase, handler, pc,
                   start_idx, idx, channel_ok>>

Next ==
    \/ Startup
    \/ Count
    \/ UploadAllStart
    \/ UploadChannelStart
    \/ SendSucceeds
    \/ SendFails
    \/ SleepAfterPoll
    \/ SleepAfterBatch
    \/ FinalReply

Spec == Init /\ [][Next]_vars

\* =================================================================== claims
\* Vocabulary of the claims.

\* The trimmed correct_answer of the row record i of the bank came from.
RawOf(i) == strip(OrEmpty(rowlog[i].correct_answer))

\* s consists only of decimal digits.
AllDecimal(s) == s # <<>> /\ \A k \in 1..Len(s) : s[k] \in DecimalChars

\* Zero-based index N-1 is a valid index of record i's option list.
InRange(n, i) == 0 <= n /\ n < Len(items[i].options)

\* Number of send_poll calls made for item i in the current run.
Attempts(i) ==
    Cardinality({k \in 1..Len(events) :
                    events[k].type = "send_poll" /\ events[k].item = i})

\* Item i has a failed / a successful send in the current run.
FailedItems ==
    {events[k].item : k \in {j \in 1..Len(events) :
                                events[j].type = "send_poll" /\ ~events[j].ok}}
SentItems ==
    {events[k].item : k \in {j \in 1..Len(events) :
                                events[j].type = "send_poll" /\ events[j].ok}}

\* A delivery run (a handler that got past the empty-bank test) has ended.
RunEnded ==
    /\ handler = "none"
    /\ events # <<>>
    /\ events[1] = Reply("uploading")

\* A step of a running handler.
RunStep ==
    SendSucceeds \/ SendFails \/ SleepAfterPoll \/ SleepAfterBatch \/ FinalReply

\* C1: every record of the bank has a non-empty option list and a
\* correct_option_id that is an index of it.
C1_RecordsValid ==
    \A i \in 1..Len(items) :
        /\ items[i].options # <<>>
        /\ InRange(items[i].correct_option_id, i)

\* C2: a record whose row had a decimal correct_answer N stores N-1 when
\* N-1 is an index of its options, and 0 otherwise.
C2_NumericIndex ==
    \A i \in 1..Len(items) :
        AllDecimal(RawOf(i)) =>
            items[i].correct_option_id =
                IF InRange(int(RawOf(i)) - 1, i) THEN int(RawOf(i)) - 1 ELSE 0

\* C2 witness: a bank holding a record resolved from "2" to index 1 and a
\* record whose numeric answer was out of range and is stored as 0.
C2_Witness ==
    /\ \E i \in 1..Len(items) :
           /\ RawOf(i) = <<"2">>
           /\ Len(items[i].options) >= 2
           /\ items[i].correct_option_id = 1
    /\ \E i \in 1..Len(items) :
           /\ RawOf(i) \in {<<"0">>, <<"1", "2">>}
           /\ items[i].options # <<>>
           /\ items[i].correct_option_id = 0

\* C3: a correct_answer that is not made of decimal digits resolves to the
\* first position of the option equal to it, or to 0 when no option equals
\* it, and load_csv never raises on such a row.
C3_TextualIndex ==
    /\ \A i \in 1..Len(items) :
           ~AllDecimal(RawOf(i)) =>
               LET c == items[i].correct_option_id
                   opts == items[i].options
               IN  IF In(RawOf(i), opts)
                   THEN /\ opts[c + 1] = RawOf(i)
                        /\ \A j \in 1..c : opts[j] # RawOf(i)
                   ELSE c = 0
    /\ (result.kind = "raise" /\ result.exc = "ValueError")
           => AllDecimal(result.literal)

\* C4: the row with options "3", "4", "5", "" and correct_answer "4" is
\* stored with options ["3", "4", "5"] and index 1.
C4_DigitTextOption ==
    \A i \in 1..Len(items) :
        (items[i].options = <<<<"3">>, <<"4">>, <<"5">>>> /\ RawOf(i) = <<"4">>)
            => items[i].correct_option_id = 1

\* C5: a record whose correct_answer resolved to no valid index (text equal
\* to no option, empty, or a number out of range) and is stored with index 0
\* has a warning logged for its row.  Stated of the records that have
\* options, the ones C1 allows in the bank.
C5_FallbackWarned ==
    \A i \in 1..Len(items) :
        LET unresolved ==
                IF AllDecimal(RawOf(i)) THEN ~InRange(int(RawOf(i)) - 1, i)
                ELSE ~In(RawOf(i), items[i].options)
        IN  (items[i].options # <<>> /\ unresolved
                /\ items[i].correct_option_id = 0) => rowlog[i].warned

\* C6: a load_csv call on a file whose header lacks a required column raises
\* the missing-columns error and leaves the bank as it was.
C6_MissingColumnNoLoad ==
    [][ (lastCall'.exists /\ ~(required \subseteq lastCall'.fieldnames))
          => /\ result' = Raised("MissingColumns", <<>>)
             /\ items' = items ]_vars

\* C6 witness: a call with the reference column absent has raised, on a bank
\* that holds the record of an earlier load and nothing more.
C6_Witness ==
    /\ lastCall.exists
    /\ lastCall.fieldnames = required \ {"reference"}
    /\ result.kind = "raise"
    /\ Len(items) = 1

\* C7: a run makes progress at every position, does at most a bounded number
\* of steps, and when it reaches its final reply every item of the bank has
\* had a send attempt, whatever sends failed.
C7_EveryItemAttempted ==
    /\ handler # "none" => ENABLED RunStep
    /\ Len(events) <= 3 * Len(items) + 2
    /\ (pc = "final" \/ RunEnded) => \A i \in 1..Len(items) : Attempts(i) >= 1

\* C7 witness: a run over three items in two batches has ended, the first
\* item of the first batch failed and a later item was sent.
C7_Witness ==
    /\ RunEnded
    /\ Len(items) = 3
    /\ 1 \in FailedItems
    /\ 3 \in SentItems
    /\ \A i \in 1..3 : Attempts(i) >= 1

\* C8: an item is declared failed only after it was re-attempted (with
\* max_retries >= 1, more than one send attempt).
C8_RetriedBeforeFailed ==
    \A k \in 1..Len(events) :
        events[k].type = "log_error" => Attempts(events[k].item) >= 2

\* C9: a run that has gone through the bank has a summary
\* {sent_count, failed_count} counting the sent and the failed items.
C9_RunSummary ==
    (pc = "final") =>
        /\ send_quiz_batch_return # None
        /\ send_quiz_batch_return.sent_count = Cardinality(SentItems)
        /\ send_quiz_batch_return.failed_count = Cardinality(FailedItems)
        /\ send_quiz_batch_return.sent_count
             + send_quiz_batch_return.failed_count = Len(items)

\* C10: a run ends with a reply, and when an item failed that reply does not
\* say that all questions were uploaded.
C10_NoSilentSuccess ==
    RunEnded =>
        /\ events[Len(events)].type = "reply"
        /\ FailedItems # {} =>
               events[Len(events)].text \notin
                   {"all_uploaded_successfully", "all_uploaded_to_channel"}

\* Positions of the send_poll events of the current run.
SendPositions == {k \in 1..Len(events) : events[k].type = "send_poll"}

\* Positions p < q of send_poll events with no send_poll event between them.
ConsecutiveSends ==
    {pq \in SendPositions \X SendPositions :
        /\ pq[1] < pq[2]
        /\ \A k \in SendPositions : ~(pq[1] < k /\ k < pq[2])}

\* C11: between the send attempt of an item and the send attempt of the next
\* item the run sleeps DELAY_BETWEEN_POLLS, whether the first was sent or
\* failed.
C11_SendDelayBetweenItems ==
    \A pq \in ConsecutiveSends :
        \E k \in (pq[1] + 1)..(pq[2] - 1) :
            events[k] = Sleep(DELAY_BETWEEN_POLLS)

\* The items of the send_poll events of the current run, in order.
RECURSIVE SentOrder(_)
SentOrder(k) ==
    IF k = 0 THEN <<>>
    ELSE IF events[k].type = "send_poll"
    THEN Append(SentOrder(k - 1), events[k].item)
    ELSE SentOrder(k - 1)

\* Number of batches closed so far: the sleeps of line 148 among the first
\* k events.
BatchesClosed(k) ==
    Cardinality({j \in 1..k : events[j] = Sleep(DELAY_BETWEEN_BATCHES)})

\* ceil(m / b)
CeilDiv(m, b) == (m + b - 1) \div b

\* C12: the item attempted in batch number n (one more than the batches
\* closed before it) is item (n-1)*B + j for j in 1..B, items are attempted
\* in bank order without gaps, and a run that went through the bank has
\* closed ceil(M/B) batches and attempted items 1..M; the slice lengths of a
\* bank of 250 with batch size 100 are 100, 100, 50.
C12_Batches ==
    /\ \A k \in SendPositions :
           /\ events[k].item > BatchesClosed(k) * BATCH_SIZE
           /\ events[k].item <= (BatchesClosed(k) + 1) * BATCH_SIZE
    /\ SentOrder(Len(events)) = [j \in 1..Cardinality(SendPositions) |-> j]
    /\ (pc = "final" \/ RunEnded) =>
           /\ Cardinality(SendPositions) = Len(items)
           /\ BatchesClosed(Len(events)) = CeilDiv(Len(items), BATCH_SIZE)
    /\ [n \in 1..CeilDiv(250, 100) |-> SliceLen(250, (n - 1) * 100, 100)]
           = <<100, 100, 50>>

\* C12 witness: a run over three items has ended, having closed two batches.
C12_Witness ==
    /\ RunEnded
    /\ Len(items) = 3
    /\ BatchesClosed(Len(events)) = 2
    /\ SentOrder(Len(events)) = <<1, 2, 3>>

\* The batch item i belongs to, counted from 1.
BatchOf(i) == ((i - 1) \div BATCH_SIZE) + 1

\* C13: when an item of batch n+1 is attempted, every item of batch n has
\* been attempted before it, and the run has slept DELAY_BETWEEN_BATCHES
\* after the last attempt of batch n.
C13_BatchDelayBetweenBatches ==
    \A k \in SendPositions :
        BatchOf(events[k].item) > 1 =>
            LET prev == {j \in SendPositions :
                            /\ j < k
                            /\ BatchOf(events[j].item)
                                 = BatchOf(events[k].item) - 1}
            IN  /\ {events[j].item : j \in prev} =
                       {i \in 1..Len(items) :
                           BatchOf(i) = BatchOf(events[k].item) - 1}
                /\ \A j \in prev :
                       \E w \in (j + 1)..(k - 1) :
                           events[w] = Sleep(DELAY_BETWEEN_BATCHES)

\* C13 witness: the last item of the first batch failed, and an item of the
\* second batch was attempted after the batch sleep.
C13_Witness ==
    /\ BATCH_SIZE \in FailedItems
    /\ \E k \in SendPositions :
           /\ events[k].item = BATCH_SIZE + 1
           /\ events[k - 1] = Sleep(DELAY_BETWEEN_BATCHES)
           /\ events[k - 2] = LogError(BATCH_SIZE)

\* C14: with an empty bank no handler is ever left running, nothing is sent
\* and no sleep is done; what a delivery trigger did is exactly one reply,
\* the no-questions reply.
C14_EmptyBankNoOp ==
    (phase = "serving" /\ items = <<>>) =>
        /\ handler = "none"
        /\ pc = "idle"
        /\ \/ events = <<>>
           \/ events = <<Reply("no_questions")>>
           \/ (Len(events) = 1 /\ events[1].text = "total_questions_loaded")

\* C14 witness: a delivery trigger was handled on an empty bank.
C14_Witness ==
    /\ phase = "serving"
    /\ items = <<>>
    /\ runs > 0
    /\ events = <<Reply("no_questions")>>

\* C15: a run whose destination is invalid has, when it ends, attempted no
\* question on that destination, and its last reply is not the report that
\* all questions were uploaded to the channel.
C15_InvalidDestinationAborts ==
    (~channel_ok /\ RunEnded) =>
        /\ \A k \in SendPositions : events[k].text # "channel"
        /\ events[Len(events)] # Reply("all_uploaded_to_channel")

\* C16: no record of the bank has a question that is empty after trimming.
C16_QuestionNotBlank ==
    \A i \in 1..Len(items) : strip(OrEmpty(items[i].question)) # <<>>

\* C17: a load_csv call that returns, returns the number of records that
\* call added to the bank.
C17_ReturnsAcceptedCount ==
    [][ result'.kind = "return"
          => result'.value = Len(items') - Len(items) ]_vars

\* p is the first min(n, Len(s)) elements of s.
IsCut(p, s, n) ==
    /\ Len(p) = (IF Len(s) < n THEN Len(s) ELSE n)
    /\ \A k \in 1..Len(p) : p[k] = s[k]

\* "<question_no>) <question>", followed by a newline and the reference when
\* the record has one.
DisplayText(it) ==
    it.question_no \o <<")", " ">> \o it.question
        \o (IF it.reference = None THEN <<>> ELSE <<"\n">> \o it.reference)

\* C18: every poll sent for a record has the first 300 characters of the
\* record's display text as question, its first 10 options, the first 200
\* characters of its description (none when absent) as explanation, and its
\* correct_option_id.
C18_PollPayload ==
    \A k \in SendPositions :
        LET it == items[events[k].item]
            poll == events[k].poll
        IN  /\ IsCut(poll.question, DisplayText(it), 300)
            /\ IsCut(poll.options, it.options, 10)
            /\ IsCut(poll.explanation,
                     IF it.description = None THEN <<>> ELSE it.description,
                     200)
            /\ poll.correct_option_id = it.correct_option_id

\* C18 witness: a poll was sent whose question was cut at 300 characters
\* inside the reference and whose explanation was cut at 200 characters.
C18_Witness ==
    \E k \in SendPositions :
        /\ events[k].ok
        /\ Len(DisplayText(items[events[k].item])) > 300
        /\ Len(events[k].poll.question) = 300
        /\ events[k].poll.question[299] = "\n"
        /\ Len(items[events[k].item].description) > 200
        /\ Len(events[k].poll.explanation) = 200

\* C19: the send attempts of a run follow the bank's order, no item is
\* attempted again after a send of it succeeded, and the run delivers at
\* most one poll per record of the bank.
C19_SentAtMostOnce ==
    /\ \A p, q \in SendPositions :
           p < q => /\ events[p].item <= events[q].item
                    /\ events[p].ok => events[q].item # events[p].item
    /\ Cardinality({k \in SendPositions : events[k].ok}) <= Len(items)

\* C19 witness: a run over three items has ended with each item sent once.
C19_Witness ==
    /\ RunEnded
    /\ Len(items) = 3
    /\ SentItems = {1, 2, 3}
    /\ Cardinality({k \in SendPositions : events[k].ok}) = 3

\* C20: while a run is suspended in one of its sleeps, a count query can be
\* handled: it replies with the bank size and changes neither the bank nor
\* the position of the run.
C20_CountDuringWait ==
    (pc \in {"sleep_poll", "sleep_batch"} /\ runs < MaxRuns) =>
        ENABLED (/\ Count
                 /\ events'[Len(events')].item = Len(items)
                 /\ UNCHANGED <<items, pc, start_idx, idx>>)

====
